---- MODULE Spec2Model ----
(***************************************************************************)
(* A model of the rentme price-recommendation core (src/mlrent):           *)
(*   - data_loader.clean_dataframe and its helpers (record cleaning),      *)
(*   - ml.parser / ml.build_feature_vector_from_dict (feature encoding),   *)
(*   - ml.dataset_paths_for_term / train_short_term / train_long_term,     *)
(*   - ml.evaluate_model / ml.test (evaluation).                           *)
(*                                                                         *)
(* Numbers of a data frame are kept in fixed point with two fractional     *)
(* bits (Fx(n) = 4n), so that the medians pandas computes over integer     *)
(* columns (halves) and over once-imputed columns (quarters) are exact.    *)
(* A cell is a sequence: <<>> is the missing marker (NaN / pd.NA) and      *)
(* <<v>> holds the number v.  A string is a sequence of characters.        *)
(***************************************************************************)
EXTENDS Integers, Sequences, FiniteSets, TLC

VARIABLES
    columns,    \* cleaning: the columns the input frame has
    batch,      \* cleaning: the rows of the input frame
    cpc,        \* cleaning: "load" | "cleaned" | "recleaned"
    cleaned,    \* cleaning: clean_dataframe(batch)
    recleaned,  \* cleaning: clean_dataframe(clean_dataframe(batch))
    csv,        \* encoding: the rows of the csv file
    epc,        \* encoding: "build" | "parsed" | "live"
    parsed,     \* encoding: parser(csv)
    request,    \* encoding: the live request: the row it restates, its dict
    vector,     \* encoding: build_feature_vector_from_dict(request.data)
    exists,     \* terms: the dataset files that exist
    resolved,   \* terms: the last dataset_paths_for_term(term)
    opened,     \* terms: the last train_short_term / train_long_term call
    model,      \* evaluation: the fitted model, or None
    heldOut,    \* evaluation: the held-out rows, features and label
    evalOut,    \* evaluation: the last evaluate_model(model, data, labels)
    testOut,    \* evaluation: the last test(model, labels, data)
    held,       \* training: the model each term's caller holds
    job,        \* training: the frame of the running train_from_csv call
    served,     \* training: the last predict call: what it was given and returned
    rawFile,    \* loading: the rows of the csv file, cell texts
    lpc,        \* loading: "write" | "loaded"
    loaded,     \* loading: clean_dataframe(_load_raw_dataframe(file))
    site,       \* scraping: the offers the endpoint serves, page by page
    fetch       \* scraping: the frame of the fetch_many call

cleanVars == <<columns, batch, cpc, cleaned, recleaned>>
encVars == <<csv, epc, parsed, request, vector>>
termVars == <<exists, resolved, opened>>
evalVars == <<model, heldOut, evalOut, testOut>>
trainVars == <<held, job, served>>
loadVars == <<rawFile, lpc, loaded>>
scrapeVars == <<site, fetch>>
vars == <<cleanVars, encVars, termVars, evalVars, trainVars, loadVars, scrapeVars>>

----------------------------------------------------------------------------
(* Cells and fixed point                                                   *)

NA == <<>>
Num(n) == <<n>>
IsNA(c) == c = NA
NotNA(c) == c # NA
Val(c) == c[1]
Fx(n) == 4 * n

----------------------------------------------------------------------------
(* data_loader.py constants                                                *)

NUMERIC_FEATURES ==
    {"minutes", "fee_percent", "views", "storey", "storeys", "rooms",
     "total_area", "living_area", "kitchen_area"}
TARGET_COLUMN == "price"
AllColumns == NUMERIC_FEATURES \cup {TARGET_COLUMN, "metro", "provider", "id"}

MAX_STOREY == 80
MAX_STOREYS == 80
MAX_ROOMS == 10
\* quantiles in thousandths: 0.995
PRICE_OUTLIER_QUANTILE == 995
AREA_QUANTILE == 995
AreaColumns == <<"total_area", "living_area", "kitchen_area">>
AREA_MIN_TOTAL == 10
AREA_MIN_LIVING == 8
AREA_MIN_KITCHEN == 4
AreaMin(column) ==
    CASE column = "total_area" -> AREA_MIN_TOTAL
      [] column = "living_area" -> AREA_MIN_LIVING
      [] column = "kitchen_area" -> AREA_MIN_KITCHEN
DUPLICATE_KEYS == <<"metro", "price", "total_area", "rooms">>

----------------------------------------------------------------------------
(* Strings: sequences of characters.  A Cyrillic letter is written by its   *)
(* transliterated name ("ru_a"), its capital in capitals ("RU_A").          *)

UPPER ==
    <<"A", "B", "C", "D", "E", "F", "G", "H", "I", "J", "K", "L", "M", "N",
      "O", "P", "Q", "R", "S", "T", "U", "V", "W", "X", "Y", "Z",
      "RU_A", "RU_V", "RU_G", "RU_D", "RU_E", "RU_Z", "RU_I", "RU_K", "RU_L",
      "RU_N", "RU_O", "RU_R", "RU_S", "RU_T", "RU_C", "RU_SHCH", "RU_J">>
LOWER ==
    <<"a", "b", "c", "d", "e", "f", "g", "h", "i", "j", "k", "l", "m", "n",
      "o", "p", "q", "r", "s", "t", "u", "v", "w", "x", "y", "z",
      "ru_a", "ru_v", "ru_g", "ru_d", "ru_e", "ru_z", "ru_i", "ru_k", "ru_l",
      "ru_n", "ru_o", "ru_r", "ru_s", "ru_t", "ru_c", "ru_shch", "ru_j">>
WhiteSpace == {" ", "\t", "\n"}

\* str.lower(), one character
LowerChar(c) ==
    IF \E i \in 1..Len(UPPER) : UPPER[i] = c
    THEN LOWER[CHOOSE i \in 1..Len(UPPER) : UPPER[i] = c]
    ELSE c

\* str.lower()
StrLower(s) == [i \in 1..Len(s) |-> LowerChar(s[i])]

RECURSIVE LStrip(_)
LStrip(s) ==
    IF s # <<>> /\ Head(s) \in WhiteSpace THEN LStrip(Tail(s)) ELSE s

RECURSIVE RStrip(_)
RStrip(s) ==
    IF s # <<>> /\ s[Len(s)] \in WhiteSpace
    THEN RStrip(SubSeq(s, 1, Len(s) - 1))
    ELSE s

\* str.strip()
StrStrip(s) == RStrip(LStrip(s))

S_unknown == <<"u", "n", "k", "n", "o", "w", "n">>
S_agency == <<"a", "g", "e", "n", "c", "y">>
S_developer == <<"d", "e", "v", "e", "l", "o", "p", "e", "r">>
S_owner == <<"o", "w", "n", "e", "r">>
S_realtor == <<"r", "e", "a", "l", "t", "o", "r">>
S_agentstvo ==
    <<"ru_a", "ru_g", "ru_e", "ru_n", "ru_t", "ru_s", "ru_t", "ru_v", "ru_o">>
S_zastrojshchik ==
    <<"ru_z", "ru_a", "ru_s", "ru_t", "ru_r", "ru_o", "ru_j", "ru_shch",
      "ru_i", "ru_k">>
S_vladelec ==
    <<"ru_v", "ru_l", "ru_a", "ru_d", "ru_e", "ru_l", "ru_e", "ru_c">>

\* the dictionary, as <<key, value>> pairs
PROVIDER_ALIASES ==
    { <<S_agency, S_agency>>,
      <<S_agentstvo, S_agency>>,
      <<S_developer, S_developer>>,
      <<S_zastrojshchik, S_developer>>,
      <<S_zastrojshchik \o <<" ">>, S_developer>>,
      <<S_owner, S_owner>>,
      <<S_vladelec, S_owner>>,
      <<S_realtor, S_realtor>> }

\* one provider cell: fillna("unknown").astype(str).str.strip().str.lower(),
\* then .map(PROVIDER_ALIASES).fillna(normalized)
NormalizeProviderCell(cell) ==
    LET filled == IF IsNA(cell) THEN S_unknown ELSE cell
        normalized == StrLower(StrStrip(filled))
    IN  IF \E kv \in PROVIDER_ALIASES : kv[1] = normalized
        THEN (CHOOSE kv \in PROVIDER_ALIASES : kv[1] = normalized)[2]
        ELSE normalized

\* _normalize_provider, on the rows of a frame with the given columns
_normalize_provider(cols, rows) ==
    IF "provider" \notin cols
    THEN rows
    ELSE [i \in 1..Len(rows) |->
            [rows[i] EXCEPT !.provider = NormalizeProviderCell(@)]]

----------------------------------------------------------------------------
(* Column statistics as pandas computes them (NaN skipped)                 *)

RECURSIVE InsertSorted(_, _)
InsertSorted(x, s) ==
    IF s = <<>> THEN <<x>>
    ELSE IF x <= Head(s) THEN <<x>> \o s
    ELSE <<Head(s)>> \o InsertSorted(x, Tail(s))

\* the non-missing values of a column, ascending
RECURSIVE ColumnValues(_, _)
ColumnValues(rows, column) ==
    IF rows = <<>> THEN <<>>
    ELSE LET rest == ColumnValues(Tail(rows), column)
             c == Head(rows)[column]
         IN  IF IsNA(c) THEN rest ELSE InsertSorted(Val(c), rest)

\* Series.quantile(q), linear interpolation, q in thousandths.  The result
\* is a cell holding 1000 times the quantile (exact), NA for no values.
Quantile1000(rows, column, q) ==
    LET v == ColumnValues(rows, column)
        n == Len(v)
        pos == (n - 1) * q
        lo == pos \div 1000
        frac == pos % 1000
    IN  IF n = 0 THEN NA
        ELSE IF frac = 0 THEN Num(1000 * v[lo + 1])
        ELSE Num(1000 * v[lo + 1] + frac * (v[lo + 2] - v[lo + 1]))

\* cell <= upper, elementwise: False when either side is NaN
LeQuantile(cell, upper1000) ==
    NotNA(cell) /\ NotNA(upper1000) /\ 1000 * Val(cell) <= Val(upper1000)

\* Series.median(): NA for no values
Median(rows, column) ==
    LET v == ColumnValues(rows, column)
        n == Len(v)
    IN  IF n = 0 THEN NA
        ELSE IF n % 2 = 1 THEN Num(v[(n + 1) \div 2])
        ELSE Num((v[n \div 2] + v[n \div 2 + 1]) \div 2)

\* Series.round(): to the nearest integer, halves to the even one
RoundHalfEven(x) ==
    LET q == x \div Fx(1)
        r == x % Fx(1)
    IN  IF 2 * r < Fx(1) THEN Fx(q)
        ELSE IF 2 * r > Fx(1) THEN Fx(q + 1)
        ELSE IF q % 2 = 0 THEN Fx(q) ELSE Fx(q + 1)

----------------------------------------------------------------------------
(* clean_dataframe, step by step                                           *)

\* lines 109-116: floor sanity checks (a comparison with NaN is False)
FloorSanityRow(r) ==
    LET storey1 == IF NotNA(r.storey)
                      /\ (Val(r.storey) <= 0 \/ Val(r.storey) > Fx(MAX_STOREY))
                   THEN NA ELSE r.storey
        storeys1 == IF NotNA(r.storeys)
                       /\ (Val(r.storeys) <= 0 \/ Val(r.storeys) > Fx(MAX_STOREYS))
                    THEN NA ELSE r.storeys
        storey2 == IF NotNA(storey1) /\ NotNA(storeys1)
                      /\ Val(storey1) > Val(storeys1)
                   THEN NA ELSE storey1
    IN  [r EXCEPT !.storey = storey2, !.storeys = storeys1]

\* line 119: rooms sanity
RoomsSanityRow(r) ==
    IF NotNA(r.rooms) /\ (Val(r.rooms) <= 0 \/ Val(r.rooms) > Fx(MAX_ROOMS))
    THEN [r EXCEPT !.rooms = NA]
    ELSE r

\* lines 109-119 over the frame: values are nulled, no row is dropped
Sanity(rows) == [i \in 1..Len(rows) |-> RoomsSanityRow(FloorSanityRow(rows[i]))]

\* line 122
UpperPrice(rows) == Quantile1000(rows, TARGET_COLUMN, PRICE_OUTLIER_QUANTILE)

\* line 123: rows with NaN price fail the comparison and are dropped
PriceFilter(rows) ==
    LET upper_price == UpperPrice(rows)
    IN  SelectSeq(rows, LAMBDA r : LeQuantile(r[TARGET_COLUMN], upper_price))

\* lines 92-99: the mask of one area column, for one row
AreaMask(r, column, upper) ==
    /\ IsNA(r[column]) \/ Val(r[column]) >= Fx(AreaMin(column))
    /\ IsNA(r[column]) \/ LeQuantile(r[column], upper)

\* lines 90-100: one iteration of the loop over AREA_RULES
AreaStep(cols, rows, column) ==
    IF column \notin cols
    THEN rows
    ELSE LET upper == Quantile1000(rows, column, AREA_QUANTILE)
         IN  SelectSeq(rows, LAMBDA r : AreaMask(r, column, upper))

\* the frame after the first k iterations of the loop
RECURSIVE AreaSteps(_, _, _)
AreaSteps(cols, rows, k) ==
    IF k = 0 THEN rows
    ELSE AreaStep(cols, AreaSteps(cols, rows, k - 1), AreaColumns[k])

\* _remove_area_outliers
_remove_area_outliers(cols, rows) == AreaSteps(cols, rows, Len(AreaColumns))

DuplicateKey(r) == [k \in 1..Len(DUPLICATE_KEYS) |-> r[DUPLICATE_KEYS[k]]]

\* a mutant of DropDuplicates: keep="last"
RECURSIVE DropDuplicatesKeepLast(_)
DropDuplicatesKeepLast(rows) ==
    IF rows = <<>> THEN <<>>
    ELSE IF \E j \in 2..Len(rows) : DuplicateKey(rows[j]) = DuplicateKey(rows[1])
         THEN DropDuplicatesKeepLast(Tail(rows))
         ELSE <<Head(rows)>> \o DropDuplicatesKeepLast(Tail(rows))

\* line 125: drop_duplicates(subset=DUPLICATE_KEYS, keep="first"); NaN keys
\* compare equal
RECURSIVE DropDuplicates(_)
DropDuplicates(rows) ==
    IF rows = <<>> THEN <<>>
    ELSE LET n == Len(rows)
             front == SubSeq(rows, 1, n - 1)
         IN  IF \E i \in 1..(n - 1) : DuplicateKey(rows[i]) = DuplicateKey(rows[n])
             THEN DropDuplicates(front)
             ELSE Append(DropDuplicates(front), rows[n])

\* lines 129-134: one iteration of the imputation loop
Impute(cols, rows, column) ==
    IF column \notin cols
    THEN rows
    ELSE LET median_value == Median(rows, column)
             fill == IF IsNA(median_value) THEN Num(0) ELSE median_value
         IN  [i \in 1..Len(rows) |->
                 IF IsNA(rows[i][column])
                 THEN [rows[i] EXCEPT ![column] = fill]
                 ELSE rows[i]]

\* line 135: round().astype(int)
RoundRooms(rows) ==
    [i \in 1..Len(rows) |-> [rows[i] EXCEPT !.rooms = Num(RoundHalfEven(Val(@)))]]

Ok(rows) == [err |-> "none", key |-> "", rows |-> rows]
KeyError(column) == [err |-> "KeyError", key |-> column, rows |-> <<>>]

\* the first of the columns that is not in cols, "" when all are
RECURSIVE FirstMissing(_, _)
FirstMissing(cols, keys) ==
    IF keys = <<>> THEN ""
    ELSE IF Head(keys) \notin cols THEN Head(keys)
    ELSE FirstMissing(cols, Tail(keys))

\* lines 121-137 for a frame that has every column the earlier lines read
CleanTail(cols, sane) ==
    LET filtered == _remove_area_outliers(cols, PriceFilter(sane))
    IN  IF FirstMissing(cols, DUPLICATE_KEYS) # ""
        THEN KeyError(FirstMissing(cols, DUPLICATE_KEYS))
        ELSE LET deduped == DropDuplicates(filtered)
                 i1 == Impute(cols, deduped, "rooms")
                 i2 == Impute(cols, i1, "storey")
                 i3 == Impute(cols, i2, "storeys")
             IN  Ok(RoundRooms(i3))

\* clean_dataframe(df): the cleaned frame, or the KeyError that df[column]
\* raises for a column the frame does not have
clean_dataframe(cols, rows) ==
    LET normalized == _normalize_provider(cols, rows)
    IN  IF "storey" \notin cols THEN KeyError("storey")
        ELSE IF "storeys" \notin cols THEN KeyError("storeys")
        ELSE IF "rooms" \notin cols THEN KeyError("rooms")
        ELSE IF TARGET_COLUMN \notin cols THEN KeyError(TARGET_COLUMN)
        ELSE CleanTail(cols, Sanity(normalized))

----------------------------------------------------------------------------
(* The cleaning machine: a frame is loaded row by row, cleaned, and the      *)
(* cleaned frame is cleaned again.                                           *)

MaxRows == 3
MaxRowsPartial == 1

BaseRow ==
    [id |-> Num(0), metro |-> "m1", price |-> Num(Fx(50)),
     minutes |-> Num(Fx(10)), fee_percent |-> Num(Fx(0)), views |-> Num(Fx(7)),
     storey |-> Num(Fx(5)), storeys |-> Num(Fx(10)), rooms |-> Num(Fx(2)),
     total_area |-> Num(Fx(40)), living_area |-> Num(Fx(20)),
     kitchen_area |-> Num(Fx(8)), provider |-> S_owner]

\* the values a raw cell takes, besides the base row's
Alternatives ==
    [metro |-> {"m2"},
     price |-> {NA, Num(Fx(70)), Num(Fx(90))},
     minutes |-> {NA},
     fee_percent |-> {},
     views |-> {},
     storey |-> {},
     storeys |-> {Num(Fx(3))},
     rooms |-> {NA, Num(Fx(3)), Num(Fx(11))},
     total_area |-> {NA, Num(Fx(9)), Num(Fx(60))},
     living_area |-> {NA, Num(Fx(7))},
     kitchen_area |-> {},
     provider |-> {<<" ", "A", "g", "e", "n", "c", "y", " ">>},
     id |-> {}]

\* raw rows: the base row with at most one cell changed
RowPool ==
    {BaseRow} \cup
    UNION {{[BaseRow EXCEPT ![c] = a] : a \in Alternatives[c]} : c \in AllColumns}

\* the columns a cleaning step refers to
SteppedColumns ==
    {"storey", "storeys", "rooms", "price", "metro", "total_area", "provider",
     "living_area", "kitchen_area"}

\* a row as a frame with the given columns holds it: no cell for an absent column
Project(cols, r) == [c \in AllColumns |-> IF c \in cols THEN r[c] ELSE NA]

RowLimit == IF columns = AllColumns THEN MaxRows ELSE MaxRowsPartial

NoFrame == [err |-> "unset", key |-> "", rows |-> <<>>]
NoParse == [err |-> "unset", field |-> "", data |-> <<>>, labels |-> <<>>]
NoVector == [err |-> "unset", field |-> "", vector |-> <<>>]
NoRequest == [row |-> 0, data |-> <<>>]

\* the state of a part of the program that a specification does not run
CleanIdle ==
    /\ columns = AllColumns
    /\ batch = <<>>
    /\ cpc = "load"
    /\ cleaned = NoFrame
    /\ recleaned = NoFrame
EncIdle ==
    /\ csv = <<>>
    /\ epc = "build"
    /\ parsed = NoParse
    /\ request = NoRequest
    /\ vector = NoVector
NoPaths == [term |-> "unset", train |-> "", test |-> ""]
NoTrain == [fn |-> "unset", arg |-> "", path |-> "", err |-> ""]
TermIdle ==
    /\ exists = {}
    /\ resolved = NoPaths
    /\ opened = NoTrain
NoMetrics == [err |-> "unset", mae |-> <<>>, rmse2 |-> <<>>]
\* None in place of a model
ModelNone == [kind |-> "None", a |-> 0, b |-> 0, strict |-> FALSE]
EvalIdle ==
    /\ model = ModelNone
    /\ heldOut = <<>>
    /\ evalOut = NoMetrics
    /\ testOut = NoMetrics
\* the terms a training entry point exists for
TrainedTerms == {"short_term", "long_term"}
\* None in place of a pipeline
NoModel == [kind |-> "None", fitted |-> 0, data |-> <<>>, labels |-> <<>>]
NoJob == [pc |-> "idle", entry |-> "", term |-> "", file |-> <<>>, data |-> <<>>,
          labels |-> <<>>, model |-> NoModel, result |-> NoModel, err |-> ""]
NoCall == [term |-> "", during |-> "", model |-> NoModel, err |-> "unset"]
TrainIdle ==
    /\ held = [t \in TrainedTerms |-> NoModel]
    /\ job = NoJob
    /\ served = NoCall
LoadIdle ==
    /\ rawFile = <<>>
    /\ lpc = "write"
    /\ loaded = NoFrame
NoFetch == [pc |-> "idle", max_pages |-> 0, page |-> 0, requested |-> <<>>,
            offers |-> <<>>, aggregated |-> <<>>, result |-> <<>>]
ScrapeIdle ==
    /\ site = <<>>
    /\ fetch = NoFetch

CleanInit ==
    /\ columns \in {AllColumns} \cup {AllColumns \ {c} : c \in SteppedColumns}
    /\ batch = <<>>
    /\ cpc = "load"
    /\ cleaned = NoFrame
    /\ recleaned = NoFrame
    /\ EncIdle /\ TermIdle /\ EvalIdle /\ TrainIdle /\ LoadIdle /\ ScrapeIdle

\* the next raw row of the input frame
AddRow(r) ==
    /\ cpc = "load"
    /\ Len(batch) < RowLimit
    /\ batch' = Append(batch, Project(columns, [r EXCEPT !.id = Num(Fx(Len(batch) + 1))]))
    /\ UNCHANGED <<columns, cpc, cleaned, recleaned, encVars, termVars, evalVars, trainVars, loadVars, scrapeVars>>

\* cleaned = clean_dataframe(batch)
Clean ==
    /\ cpc = "load"
    /\ cleaned' = clean_dataframe(columns, batch)
    /\ cpc' = "cleaned"
    /\ UNCHANGED <<columns, batch, recleaned, encVars, termVars, evalVars, trainVars, loadVars, scrapeVars>>

\* recleaned = clean_dataframe(cleaned)
Reclean ==
    /\ cpc = "cleaned"
    /\ cleaned.err = "none"
    /\ recleaned' = clean_dataframe(columns, cleaned.rows)
    /\ cpc' = "recleaned"
    /\ UNCHANGED <<columns, batch, cleaned, encVars, termVars, evalVars, trainVars, loadVars, scrapeVars>>

CleanNext ==
    \/ \E r \in RowPool : AddRow(r)
    \/ Clean
    \/ Reclean

CleanSpec == CleanInit /\ [][CleanNext]_vars

----------------------------------------------------------------------------
(* Properties of cleaning                                                  *)

FullFrame == columns = AllColumns
CleanedOk == cpc # "load" /\ cleaned.err = "none"

\* the frame after lines 106-119
SaneBatch == Sanity(_normalize_provider(columns, batch))

\* the frame after lines 121-124
FilteredBatch == _remove_area_outliers(columns, PriceFilter(SaneBatch))

\* C1: cleaning is idempotent: cleaning the cleaned frame again drops no row
\* and changes no value.
C1_Idempotent == FullFrame /\ cpc = "recleaned" => recleaned = cleaned

\* C2: no two rows of the cleaned frame share (metro, price, total_area, rooms).
C2_NoDuplicateKeys ==
    FullFrame /\ CleanedOk =>
        \A i, j \in 1..Len(cleaned.rows) :
            i < j => DuplicateKey(cleaned.rows[i]) # DuplicateKey(cleaned.rows[j])

\* C3: no numeric feature column of the cleaned frame holds a missing marker
\* and no row has a missing price.
C3_NoMissing ==
    FullFrame /\ CleanedOk =>
        \A i \in 1..Len(cleaned.rows) :
            \A c \in (NUMERIC_FEATURES \cup {TARGET_COLUMN}) \cap columns :
                NotNA(cleaned.rows[i][c])

\* C4: every cleaned row has price <= the price threshold of the frame and each
\* area within [minimum, threshold], each area threshold being taken over the
\* rows that passed the previous area column's filter.
C4_OutlierBand ==
    FullFrame /\ CleanedOk =>
        \A i \in 1..Len(cleaned.rows) :
            /\ LeQuantile(cleaned.rows[i][TARGET_COLUMN], UpperPrice(SaneBatch))
            /\ \A k \in 1..Len(AreaColumns) :
                 AreaColumns[k] \in columns =>
                   LET cell == cleaned.rows[i][AreaColumns[k]]
                       seen == AreaSteps(columns, PriceFilter(SaneBatch), k - 1)
                   IN  /\ NotNA(cell)
                       /\ Val(cell) >= Fx(AreaMin(AreaColumns[k]))
                       /\ LeQuantile(cell, Quantile1000(seen, AreaColumns[k], AREA_QUANTILE))

\* What does hold of the returned frame (checked beside the claims): the
\* columns the code imputes hold no missing marker and rooms is an integer,
\* no price is missing, and every area that is not missing lies in its band.
CleanedFacts ==
    FullFrame /\ CleanedOk =>
        \A i \in 1..Len(cleaned.rows) :
            /\ \A c \in {"rooms", "storey", "storeys", TARGET_COLUMN} :
                  NotNA(cleaned.rows[i][c])
            /\ Val(cleaned.rows[i].rooms) % Fx(1) = 0
            /\ LeQuantile(cleaned.rows[i][TARGET_COLUMN], UpperPrice(SaneBatch))
            /\ \A k \in 1..Len(AreaColumns) :
                  LET cell == cleaned.rows[i][AreaColumns[k]]
                      seen == AreaSteps(columns, PriceFilter(SaneBatch), k - 1)
                  IN  NotNA(cell) =>
                        /\ Val(cell) >= Fx(AreaMin(AreaColumns[k]))
                        /\ LeQuantile(cell, Quantile1000(seen, AreaColumns[k], AREA_QUANTILE))

\* The second pass drops a row even when the first returned no duplicates:
\* this invariant is violated (prices 50, 70, 90).
IdempotentWithoutDuplicates ==
    /\ FullFrame /\ cpc = "recleaned"
    /\ \A i, j \in 1..Len(cleaned.rows) :
          i < j => DuplicateKey(cleaned.rows[i]) # DuplicateKey(cleaned.rows[j])
    => Len(recleaned.rows) = Len(cleaned.rows)

\* the fixed point is exact: every median taken is of values whose sum is even
ExactMedians ==
    \A c \in {"rooms", "storey", "storeys"} :
        /\ \A i \in 1..Len(batch) : NotNA(batch[i][c]) => Val(batch[i][c]) % Fx(1) = 0
        /\ cleaned.err = "none" =>
              \A i \in 1..Len(cleaned.rows) : Val(cleaned.rows[i][c]) % 2 = 0

\* C10: a frame that lacks a column still cleans: no error.
C10_NoError == cpc # "load" => cleaned.err = "none"

\* the C8 scenario: two rows with one duplicate key, the first with
\* storey > storeys, the second with a valid floor
ScenarioC8 ==
    /\ FullFrame
    /\ Len(batch) = 2
    /\ DuplicateKey(batch[1]) = DuplicateKey(batch[2])
    /\ \A i \in 1..2 : NotNA(batch[i].storey) /\ NotNA(batch[i].storeys)
    /\ Val(batch[1].storey) > Val(batch[1].storeys)
    /\ Val(batch[2].storey) > 0
    /\ Val(batch[2].storey) <= Val(batch[2].storeys)

HasId(rows, id) == \E k \in 1..Len(rows) : rows[k].id = id

\* C8 as claimed: in the scenario exactly one row is returned, the second.
C8_KeepsSecond ==
    CleanedOk /\ ScenarioC8 =>
        Len(cleaned.rows) = 1 /\ cleaned.rows[1].id = batch[2].id

\* C8 as amended: the floor check nulls the storey and drops no row, and
\* duplicate removal keeps exactly the first occurrence of each key among the
\* rows that pass the price and area filters; so in the scenario, when the
\* first row passes the filters, exactly one row is returned and it is the
\* first input row, its storey imputed (0: no storey is left to take a median of).
C8_KeepsFirstSurvivor ==
    FullFrame /\ CleanedOk =>
        LET filtered == FilteredBatch
            out == cleaned.rows
        IN  /\ Len(SaneBatch) = Len(batch)
            /\ \A i \in 1..Len(filtered) :
                  HasId(out, filtered[i].id)
                  <=> \A j \in 1..(i - 1) :
                         DuplicateKey(filtered[j]) # DuplicateKey(filtered[i])
            /\ \A k \in 1..Len(out) : HasId(filtered, out[k].id)
            /\ ScenarioC8 /\ HasId(filtered, batch[1].id) =>
                  /\ Len(out) = 1
                  /\ out[1].id = batch[1].id
                  /\ out[1].storey = Num(0)
                  /\ out[1].storeys = batch[1].storeys

\* the scenario happened and the first row came back
C8_Witness ==
    /\ CleanedOk
    /\ ScenarioC8
    /\ Len(cleaned.rows) = 1
    /\ cleaned.rows[1].id = batch[1].id
    /\ cleaned.rows[1].storey = Num(0)

----------------------------------------------------------------------------
(* Feature encoding (ml.py): a dict maps a field to a value.  A value is a  *)
(* string (kind "str", its characters in s), a number (kind "num"), None     *)
(* (kind "none": a csv row shorter than the header) or is not in the dict    *)
(* (kind "absent").  Encoded numbers are kept in fixed point, as above.      *)

Str(s) == [kind |-> "str", s |-> s, v |-> 0]
Number(n) == [kind |-> "num", s |-> <<>>, v |-> n]
None == [kind |-> "none", s |-> <<>>, v |-> 0]
Absent == [kind |-> "absent", s |-> <<>>, v |-> 0]

Digits == <<"0", "1", "2", "3", "4", "5", "6", "7", "8", "9">>
IsDigit(c) == \E i \in 1..Len(Digits) : Digits[i] = c
DigitVal(c) == (CHOOSE i \in 1..Len(Digits) : Digits[i] = c) - 1

RECURSIVE ParseDigits(_)
ParseDigits(s) ==
    IF s = <<>> THEN 0
    ELSE 10 * ParseDigits(SubSeq(s, 1, Len(s) - 1)) + DigitVal(s[Len(s)])

RECURSIVE IntToStr(_)
IntToStr(n) ==
    IF n < 10 THEN <<Digits[n + 1]>>
    ELSE IntToStr(n \div 10) \o <<Digits[(n % 10) + 1]>>

Value(x) == [err |-> "none", field |-> "", val |-> x]
Raise(e, f) == [err |-> e, field |-> f, val |-> 0]

\* float(d[field]): a number, or the exception Python raises.  The strings
\* of the model that spell a number are unsigned decimal integers, which
\* float() accepts with surrounding whitespace.
ToFloat(d, field) ==
    LET x == d[field]
        body == StrStrip(x.s)
    IN  CASE x.kind = "absent" -> Raise("KeyError", field)
          [] x.kind = "none" -> Raise("TypeError", field)
          [] x.kind = "num" -> Value(Fx(x.v))
          [] x.kind = "str" ->
                IF body # <<>> /\ \A i \in 1..Len(body) : IsDigit(body[i])
                THEN Value(Fx(ParseDigits(body)))
                ELSE Raise("ValueError", field)

\* str(x)
StrOf(x) ==
    CASE x.kind = "str" -> x.s
      [] x.kind = "num" -> IntToStr(x.v)
      [] x.kind = "none" -> <<"N", "o", "n", "e">>

S_walk == <<"w", "a", "l", "k">>
S_car == <<"c", "a", "r">>
S_transit == <<"t", "r", "a", "n", "s", "i", "t">>
Half == Fx(1) \div 2

\* a mutant of WayMapBulk: the map without transit
WayMapBulkNoTransit == {<<S_walk, Fx(0)>>, <<S_car, Fx(1)>>}

\* way_map of parser (line 38), as <<key, value>> pairs
WayMapBulk == {<<S_walk, Fx(0)>>, <<S_car, Fx(1)>>, <<S_transit, Half>>}
\* way_map of build_feature_vector_from_dict (line 86)
WayMapLive == {<<S_walk, Fx(0)>>, <<S_car, Fx(1)>>, <<S_transit, Half>>}

InMap(map, key) == \E kv \in map : kv[1] = key
Lookup(map, key) == (CHOOSE kv \in map : kv[1] = key)[2]

\* the numeric features in the order of the vector; position 2 is the way code
FeatureFields ==
    <<"minutes", "way", "rooms", "total_area", "storey", "storeys",
      "renovation", "building_age_years">>

\* the first exception among the results, in order; none when all are values
RECURSIVE FirstError(_)
FirstError(results) ==
    IF results = <<>> THEN Value(0)
    ELSE IF Head(results).err # "none" THEN Head(results)
    ELSE FirstError(Tail(results))

\* a mutant of BulkWay: way_map[...] in place of way_map.get(..., 0.0)
BulkWayStrict(row) ==
    LET x == row["way"]
    IN  CASE x.kind = "absent" -> Raise("KeyError", "way")
          [] x.kind = "none" -> Raise("AttributeError", "way")
          [] OTHER ->
                LET key == StrLower(StrStrip(x.s))
                IN  IF InMap(WayMapBulk, key)
                    THEN Value(Lookup(WayMapBulk, key))
                    ELSE Raise("KeyError", "way")

\* line 43: way_map.get(row["way"].strip().lower(), 0.0)
BulkWay(row) ==
    LET x == row["way"]
    IN  CASE x.kind = "absent" -> Raise("KeyError", "way")
          [] x.kind = "none" -> Raise("AttributeError", "way")
          [] OTHER ->
                LET key == StrLower(StrStrip(x.s))
                IN  IF InMap(WayMapBulk, key)
                    THEN Value(Lookup(WayMapBulk, key))
                    ELSE Value(Fx(0))

\* lines 42-53: one row of the file: its features and its label, or the
\* first exception, in the order the code evaluates
BulkRow(row) ==
    LET label == ToFloat(row, "price")
        cells == [k \in 1..Len(FeatureFields) |->
                     IF FeatureFields[k] = "way" THEN BulkWay(row)
                     ELSE ToFloat(row, FeatureFields[k])]
        \* way is computed on line 43, before the list of line 44
        order == <<label, cells[2], cells[1]>> \o SubSeq(cells, 3, Len(cells))
        bad == FirstError(order)
    IN  IF bad.err # "none"
        THEN [err |-> bad.err, field |-> bad.field, features |-> <<>>, label |-> 0]
        ELSE [err |-> "none", field |-> "",
              features |-> [k \in 1..Len(cells) |-> cells[k].val],
              label |-> label.val]

\* parser(file), file being the rows csv.DictReader yields
parser(file) ==
    LET rows == [i \in 1..Len(file) |-> BulkRow(file[i])]
        failed == {i \in 1..Len(file) : rows[i].err # "none"}
        first == CHOOSE i \in failed : \A j \in failed : i <= j
    IN  IF file = <<>>
        THEN [err |-> "none", field |-> "", data |-> <<>>, labels |-> <<>>]
        ELSE IF failed # {}
        THEN [err |-> rows[first].err, field |-> rows[first].field,
              data |-> <<>>, labels |-> <<>>]
        ELSE [err |-> "none", field |-> "",
              data |-> [i \in 1..Len(file) |-> rows[i].features],
              labels |-> [i \in 1..Len(file) |-> rows[i].label]]

\* build_feature_vector_from_dict(data): the vector, or the exception; the
\* ValueError of line 89 carries the message 'way must be ...'
build_feature_vector_from_dict(data) ==
    LET x == data["way"]
        way_raw == StrLower(StrStrip(StrOf(x)))
        cells == [k \in 1..Len(FeatureFields) |->
                     IF FeatureFields[k] = "way" THEN Value(0)
                     ELSE ToFloat(data, FeatureFields[k])]
        bad == FirstError(cells)
    IN  IF x.kind = "absent"
        THEN [err |-> "KeyError", field |-> "way", vector |-> <<>>]
        ELSE IF ~InMap(WayMapLive, way_raw)
        THEN [err |-> "ValueError", field |-> "way", vector |-> <<>>]
        ELSE IF bad.err # "none"
        THEN [err |-> bad.err, field |-> bad.field, vector |-> <<>>]
        ELSE [err |-> "none", field |-> "",
              vector |-> [k \in 1..Len(cells) |->
                             IF FeatureFields[k] = "way"
                             THEN Lookup(WayMapLive, way_raw)
                             ELSE cells[k].val]]

----------------------------------------------------------------------------
(* The encoding machine: a csv file is written row by row and parsed, and    *)
(* the attributes of one of its rows are sent as a live request.             *)

MaxCsvRows == 2

S_15 == <<"1", "5">>
ScenarioRow ==
    [price |-> Str(<<"5", "0", "0", "0", "0">>),
     minutes |-> Str(S_15), way |-> Str(S_car), rooms |-> Str(<<"2">>),
     total_area |-> Str(<<"4", "5">>), storey |-> Str(<<"3">>),
     storeys |-> Str(<<"9">>), renovation |-> Str(<<"1">>),
     building_age_years |-> Str(<<"1", "0">>)]

CsvFields == DOMAIN ScenarioRow

CsvAlternatives ==
    [price |-> {Str(<<>>), Str(<<"7", "0", "0", "0", "0">>)},
     minutes |-> {Str(<<" ", "7", " ">>), Str(<<"a", "b", "c">>), None},
     way |-> {Str(S_walk), Str(S_transit), Str(<<" ", "C", "a", "r", " ">>),
              Str(<<"T", "r", "a", "n", "s", "i", "t", "\n">>),
              Str(<<"b", "u", "s">>), Str(<<"c", " ", "a", "r">>), Str(<<>>), None},
     rooms |-> {Str(<<"3">>)},
     total_area |-> {Str(<<"4", " ", "5">>)},
     storey |-> {},
     storeys |-> {Str(<<"1", "2">>)},
     renovation |-> {Str(<<"0">>)},
     building_age_years |-> {None}]

\* csv rows: the scenario row with at most one cell changed
CsvPool ==
    {ScenarioRow} \cup
    UNION {{[ScenarioRow EXCEPT ![f] = a] : a \in CsvAlternatives[f]} : f \in CsvFields}

\* the row as a client sends it: spelled numbers as numbers when typed,
\* one field left out when dropped names it
AsRequest(row, typed, dropped) ==
    [f \in CsvFields |->
        IF f = dropped THEN Absent
        ELSE IF typed /\ f # "way" /\ ToFloat(row, f).err = "none" /\ row[f].kind = "str"
        THEN Number(ParseDigits(StrStrip(row[f].s)))
        ELSE row[f]]

EncInit == CleanIdle /\ EncIdle /\ TermIdle /\ EvalIdle /\ TrainIdle /\ LoadIdle /\ ScrapeIdle

AddCsvRow(r) ==
    /\ epc = "build"
    /\ Len(csv) < MaxCsvRows
    /\ csv' = Append(csv, r)
    /\ UNCHANGED <<epc, parsed, request, vector, cleanVars, termVars, evalVars, trainVars, loadVars, scrapeVars>>

\* parsed = parser(csv)
Parse ==
    /\ epc = "build"
    /\ parsed' = parser(csv)
    /\ epc' = "parsed"
    /\ UNCHANGED <<csv, request, vector, cleanVars, termVars, evalVars, trainVars, loadVars, scrapeVars>>

\* vector = build_feature_vector_from_dict(the attributes of row i)
Live(i, typed, dropped) ==
    /\ epc = "parsed"
    /\ request' = [row |-> i, data |-> AsRequest(csv[i], typed, dropped)]
    /\ vector' = build_feature_vector_from_dict(request'.data)
    /\ epc' = "live"
    /\ UNCHANGED <<csv, parsed, cleanVars, termVars, evalVars, trainVars, loadVars, scrapeVars>>

EncNext ==
    \/ \E r \in CsvPool : AddCsvRow(r)
    \/ Parse
    \/ \E i \in 1..Len(csv), typed \in BOOLEAN, dropped \in {"", "way"} :
          Live(i, typed, dropped)

EncSpec == EncInit /\ [][EncNext]_vars

----------------------------------------------------------------------------
(* Properties of encoding                                                  *)

KnownWays == {S_walk, S_car, S_transit}

\* the code of a recognised token, as the specification gives it
WayCode(key) ==
    CASE key = S_walk -> Fx(0)
      [] key = S_car -> Fx(1)
      [] key = S_transit -> Half

NumericFields == {FeatureFields[k] : k \in 1..Len(FeatureFields)} \ {"way"}

Convertible(d, f) == ToFloat(d, f).err = "none"

\* the way cell is a string that is one of walk/car/transit up to case and
\* surrounding whitespace
KnownToken(x) == x.kind = "str" /\ StrLower(StrStrip(x.s)) \in KnownWays
UnknownToken(x) == x.kind = "str" /\ StrLower(StrStrip(x.s)) \notin KnownWays

ValidAttributes(d) ==
    /\ \A f \in NumericFields : Convertible(d, f)
    /\ KnownToken(d["way"])

\* C5: for attributes that are all present and valid the live path returns a
\* vector of length 8 in the order (minutes, way code, rooms, total_area,
\* storey, storeys, renovation, building_age_years), walk 0, car 1, transit
\* 0.5, and the bulk path's row of the same attributes is that vector; the
\* scenario row encodes as [15, 1, 2, 45, 3, 9, 1, 10].
C5_SameVector ==
    epc = "live" /\ ValidAttributes(request.data) =>
        LET d == request.data
            way == StrLower(StrStrip(d["way"].s))
        IN  /\ vector.err = "none"
            /\ Len(vector.vector) = 8
            /\ vector.vector =
                 <<ToFloat(d, "minutes").val, WayCode(way), ToFloat(d, "rooms").val,
                   ToFloat(d, "total_area").val, ToFloat(d, "storey").val,
                   ToFloat(d, "storeys").val, ToFloat(d, "renovation").val,
                   ToFloat(d, "building_age_years").val>>
            /\ Convertible(csv[request.row], "price")
               /\ (\A j \in 1..Len(csv) : BulkRow(csv[j]).err = "none")
               => /\ parsed.err = "none"
                  /\ parsed.data[request.row] = vector.vector
            /\ csv[request.row] = ScenarioRow =>
                 vector.vector =
                   <<Fx(15), Fx(1), Fx(2), Fx(45), Fx(3), Fx(9), Fx(1), Fx(10)>>

\* a transit token in capitals, and one row with padded digits, went both ways
C5_Witness ==
    /\ epc = "live"
    /\ ValidAttributes(request.data)
    /\ parsed.err = "none"
    /\ Len(csv) = 2
    /\ request.row = 2
    /\ csv[2]["way"].s = <<"T", "r", "a", "n", "s", "i", "t", "\n">>
    /\ csv[1]["minutes"].s = <<" ", "7", " ">>
    /\ parsed.data[2] = vector.vector
    /\ vector.vector[2] = Half
    /\ parsed.data[1][1] = Fx(7)

\* every cell of the row but the way is present and convertible
NumericRow(row) ==
    Convertible(row, "price") /\ \A f \in NumericFields : Convertible(row, f)

\* C6: a row whose way token is not walk/car/transit is kept by the bulk path
\* and its way encoded 0.0 (one feature row and one label per input row); the
\* live path given that token raises an error naming the field way and
\* returns no vector.
C6_UnknownWay ==
    /\ epc # "build"
       /\ (\A i \in 1..Len(csv) : NumericRow(csv[i]) /\ csv[i]["way"].kind = "str")
       => /\ parsed.err = "none"
          /\ Len(parsed.data) = Len(csv)
          /\ Len(parsed.labels) = Len(csv)
          /\ \A i \in 1..Len(csv) :
                UnknownToken(csv[i]["way"]) => parsed.data[i][2] = Fx(0)
    /\ epc = "live" /\ UnknownToken(request.data["way"])
       => /\ vector.err = "ValueError"
          /\ vector.field = "way"
          /\ vector.vector = <<>>

\* the token "bus" was parsed in bulk and sent live
C6_Witness ==
    /\ epc = "live"
    /\ Len(csv) = 2
    /\ csv[2]["way"].s = <<"b", "u", "s">>
    /\ request.row = 2
    /\ request.data["way"].s = <<"b", "u", "s">>
    /\ parsed.err = "none"
    /\ Len(parsed.data) = 2
    /\ parsed.data[2][2] = Fx(0)
    /\ vector.err = "ValueError"
    /\ vector.field = "way"

----------------------------------------------------------------------------
(* Dataset resolution per rental term (ml.py lines 14-19, 112-139)          *)

SHORT_TRAIN_PATH == "clean_train_short.csv"
SHORT_TEST_PATH == "clean_test_short.csv"
LONG_TRAIN_PATH == "clean_train_long.csv"
LONG_TEST_PATH == "clean_test_long.csv"
LEGACY_TRAIN_PATH == "clean_train.csv"
LEGACY_TEST_PATH == "clean_test.csv"
CustomPath == "custom.csv"

DatasetPaths ==
    {SHORT_TRAIN_PATH, SHORT_TEST_PATH, LONG_TRAIN_PATH, LONG_TEST_PATH,
     LEGACY_TRAIN_PATH, LEGACY_TEST_PATH, CustomPath}

\* dataset_paths_for_term(term), with the files in files existing
dataset_paths_for_term(files, term) ==
    IF term = "short_term"
    THEN [term |-> term,
          train |-> IF SHORT_TRAIN_PATH \in files THEN SHORT_TRAIN_PATH
                    ELSE LEGACY_TRAIN_PATH,
          test |-> IF SHORT_TEST_PATH \in files THEN SHORT_TEST_PATH
                   ELSE LEGACY_TEST_PATH]
    ELSE [term |-> term,
          train |-> IF LONG_TRAIN_PATH \in files THEN LONG_TRAIN_PATH
                    ELSE LEGACY_TRAIN_PATH,
          test |-> IF LONG_TEST_PATH \in files THEN LONG_TEST_PATH
                   ELSE LEGACY_TEST_PATH]

\* the value of a train_path argument as a condition: None and "" are false
Truthy(arg) == arg \notin {"None", ""}

\* parser's open(file) on a path: the error for a file that is not there
OpenError(files, path) == IF path \in files THEN "none" ELSE "FileNotFoundError"

\* train_short_term(train_path): the path handed to train_from_csv
train_short_term(files, arg) ==
    LET path == IF Truthy(arg) THEN arg ELSE SHORT_TRAIN_PATH
        path2 == IF path \notin files /\ LEGACY_TRAIN_PATH \in files
                 THEN LEGACY_TRAIN_PATH ELSE path
    IN  [fn |-> "train_short_term", arg |-> arg, path |-> path2,
         err |-> OpenError(files, path2)]

\* train_long_term(train_path): the path handed to train_from_csv
train_long_term(files, arg) ==
    LET path == IF Truthy(arg) THEN arg ELSE LONG_TRAIN_PATH
        path2 == IF path \notin files THEN LEGACY_TRAIN_PATH ELSE path
    IN  [fn |-> "train_long_term", arg |-> arg, path |-> path2,
         err |-> OpenError(files, path2)]

Terms == {"short_term", "long_term", "weekly"}
TrainArgs == {"None", "", CustomPath}

\* the files are what they are when the process starts
TermInit ==
    /\ CleanIdle /\ EncIdle /\ EvalIdle /\ TrainIdle /\ LoadIdle /\ ScrapeIdle
    /\ exists \in SUBSET DatasetPaths
    /\ resolved = NoPaths
    /\ opened = NoTrain

Resolve(term) ==
    /\ resolved' = dataset_paths_for_term(exists, term)
    /\ UNCHANGED <<exists, opened, cleanVars, encVars, evalVars, trainVars, loadVars, scrapeVars>>

TrainShort(arg) ==
    /\ opened' = train_short_term(exists, arg)
    /\ UNCHANGED <<exists, resolved, cleanVars, encVars, evalVars, trainVars, loadVars, scrapeVars>>

TrainLong(arg) ==
    /\ opened' = train_long_term(exists, arg)
    /\ UNCHANGED <<exists, resolved, cleanVars, encVars, evalVars, trainVars, loadVars, scrapeVars>>

TermNext ==
    \/ \E term \in Terms : Resolve(term)
    \/ \E arg \in TrainArgs : TrainShort(arg)
    \/ \E arg \in TrainArgs : TrainLong(arg)

TermSpec == TermInit /\ [][TermNext]_vars

\* the term a training entry point trains
TermOf(fn) == IF fn = "train_short_term" THEN "short_term" ELSE "long_term"

Specific(term, kind) ==
    CASE term = "short_term" /\ kind = "train" -> SHORT_TRAIN_PATH
      [] term = "short_term" /\ kind = "test" -> SHORT_TEST_PATH
      [] term # "short_term" /\ kind = "train" -> LONG_TRAIN_PATH
      [] term # "short_term" /\ kind = "test" -> LONG_TEST_PATH

\* C7: resolution returns the term's own file when it exists and the legacy
\* file otherwise, for train and test independently and whatever files exist;
\* the training entry points, called without a path, read the train path that
\* dataset_paths_for_term returns for their term; short_term with only the
\* legacy dataset resolves to the legacy dataset and opens without error.
C7_TermFallback ==
    /\ resolved.term # "unset" =>
          /\ resolved.train = IF Specific(resolved.term, "train") \in exists
                              THEN Specific(resolved.term, "train")
                              ELSE LEGACY_TRAIN_PATH
          /\ resolved.test = IF Specific(resolved.term, "test") \in exists
                             THEN Specific(resolved.term, "test")
                             ELSE LEGACY_TEST_PATH
    /\ opened.fn # "unset" /\ ~Truthy(opened.arg) /\ resolved.term = TermOf(opened.fn)
          => opened.path = resolved.train
    /\ opened.fn = "train_short_term" /\ ~Truthy(opened.arg)
       /\ exists = {LEGACY_TRAIN_PATH, LEGACY_TEST_PATH}
          => opened.path = LEGACY_TRAIN_PATH /\ opened.err = "none"

----------------------------------------------------------------------------
(* Evaluation (ml.py lines 142-166).  A fitted model is any object with a   *)
(* predict method: here a line a*x + b over one feature.  A strict model's   *)
(* predict raises on zero samples, as scikit-learn's estimators do.  A mean  *)
(* is kept exact as <<sum, count>>; rmse2 is the mean of the squared errors, *)
(* of which rmse is the square root.                                         *)

Fitted(a, b, strict) == [kind |-> "Pipeline", a |-> a, b |-> b, strict |-> strict]

\* model.predict(data), one prediction per row
Predict(m, rows) == [i \in 1..Len(rows) |-> m.a * rows[i].x + m.b]

Abs(x) == IF x < 0 THEN -x ELSE x

RECURSIVE SumSeq(_)
SumSeq(q) == IF q = <<>> THEN 0 ELSE Head(q) + SumSeq(Tail(q))

Zero == <<0, 1>>
Metrics(mae, rmse2) == [err |-> "none", mae |-> mae, rmse2 |-> rmse2]
Failure(e) == [err |-> e, mae |-> <<>>, rmse2 |-> <<>>]

\* evaluate_model(model, test_data, test_labels)
evaluate_model(m, rows) ==
    IF m.kind = "None" \/ Len(rows) = 0
    THEN Metrics(Zero, Zero)
    ELSE LET predictions == Predict(m, rows)
             errors == [i \in 1..Len(rows) |-> predictions[i] - rows[i].label]
         IN  Metrics(<<SumSeq([i \in 1..Len(rows) |-> Abs(errors[i])]), Len(rows)>>,
                     <<SumSeq([i \in 1..Len(rows) |-> errors[i] * errors[i]]), Len(rows)>>)

\* test(model, test_l, test_d): it prints the mean absolute error and returns
\* None; mae is the value printed, no rmse is computed
test(m, rows) ==
    IF m.kind = "None" THEN Failure("AttributeError")
    ELSE IF Len(rows) = 0 /\ m.strict THEN Failure("ValueError")
    ELSE LET preds == Predict(m, rows)
             p == SumSeq([i \in 1..Len(rows) |-> Abs(preds[i] - rows[i].label)])
         IN  IF Len(rows) = 0
             THEN Failure("ZeroDivisionError")
             ELSE Metrics(<<p, Len(rows)>>, <<>>)

MaxHeldOut == 2
MaxFeature == 1
MaxLabel == 2

Models ==
    {ModelNone} \cup
    {Fitted(a, b, strict) : a \in {1, 2}, b \in {0}, strict \in BOOLEAN}

EvalInit ==
    /\ CleanIdle /\ EncIdle /\ TermIdle /\ TrainIdle /\ LoadIdle /\ ScrapeIdle
    /\ model \in Models
    /\ heldOut = <<>>
    /\ evalOut = NoMetrics
    /\ testOut = NoMetrics

AddHeldOut(x, label) ==
    /\ evalOut = NoMetrics /\ testOut = NoMetrics
    /\ Len(heldOut) < MaxHeldOut
    /\ heldOut' = Append(heldOut, [x |-> x, label |-> label])
    /\ UNCHANGED <<model, evalOut, testOut, cleanVars, encVars, termVars, trainVars, loadVars, scrapeVars>>

Evaluate ==
    /\ evalOut' = evaluate_model(model, heldOut)
    /\ UNCHANGED <<model, heldOut, testOut, cleanVars, encVars, termVars, trainVars, loadVars, scrapeVars>>

Test ==
    /\ testOut' = test(model, heldOut)
    /\ UNCHANGED <<model, heldOut, evalOut, cleanVars, encVars, termVars, trainVars, loadVars, scrapeVars>>

EvalNext ==
    \/ \E x \in 0..MaxFeature, label \in 0..MaxLabel : AddHeldOut(x, label)
    \/ Evaluate
    \/ Test

EvalSpec == EvalInit /\ [][EvalNext]_vars

\* C9: against zero held-out rows every evaluation routine returns mae 0 and
\* rmse 0 and raises nothing; against n > 0 rows mae is the mean of
\* |prediction - label| and rmse the root of the mean squared error.
C9_Evaluation ==
    /\ evalOut.err # "unset" /\ heldOut = <<>> => evalOut = Metrics(Zero, Zero)
    /\ testOut.err # "unset" /\ heldOut = <<>> /\ model.kind # "None"
          => testOut.err = "none" /\ testOut.mae = Zero
    /\ evalOut.err # "unset" /\ heldOut # <<>> /\ model.kind # "None" =>
          /\ evalOut.err = "none"
          /\ evalOut.mae[2] = Len(heldOut)
          /\ evalOut.mae[1] =
               SumSeq([i \in 1..Len(heldOut) |->
                          Abs(model.a * heldOut[i].x + model.b - heldOut[i].label)])
          /\ evalOut.rmse2[2] = Len(heldOut)
          /\ evalOut.rmse2[1] =
               SumSeq([i \in 1..Len(heldOut) |->
                          (model.a * heldOut[i].x + model.b - heldOut[i].label)
                          * (model.a * heldOut[i].x + model.b - heldOut[i].label)])

----------------------------------------------------------------------------
(* Training (ml.py lines 62-82, 102-129).  train_from_csv runs line by line: *)
(* parser, build_model, fit, return.  The pipeline is a local of the call    *)
(* until the return hands it to the caller; fit fits its steps in place, one *)
(* after the other, so the local is partially fitted while fit runs.  A      *)
(* fitted pipeline is told apart by the data it was fitted on.  Of           *)
(* scikit-learn the model keeps the input validation: a transformer rejects  *)
(* zero samples, the final estimator rejects X and y of different lengths,   *)
(* both with ValueError.  The caller that keeps the returned model for a     *)
(* term is not part of ml.py: held is that caller's reference.               *)

\* the steps of build_model()'s pipeline, in order
PipelineSteps == <<"poly", "scaler", "lasso">>

\* build_model(): an unfitted pipeline
build_model == [kind |-> "Pipeline", fitted |-> 0, data |-> <<>>, labels |-> <<>>]

Complete(m) == m.kind = "Pipeline" /\ m.fitted = Len(PipelineSteps)

FitErrorNoMinimum(k, data, labels) ==
    IF PipelineSteps[k] = "lasso" /\ Len(data) # Len(labels)
    THEN "ValueError"
    ELSE "none"

\* what fitting step k of the pipeline raises on (data, labels)
FitError(k, data, labels) ==
    IF PipelineSteps[k] = "poly" /\ Len(data) = 0
    THEN "ValueError"
    ELSE IF PipelineSteps[k] = "lasso" /\ Len(data) # Len(labels)
    THEN "ValueError"
    ELSE "none"

\* predict(features, model): the exception, or "none" with a float returned
predict(features, m) ==
    IF m.kind = "None" THEN "AttributeError"
    ELSE IF ~Complete(m) THEN "NotFittedError"
    ELSE "none"

MaxTrainRows == 2

\* training files: good rows, the last one with an empty price or not
GoodRows(n) == [i \in 1..n |-> ScenarioRow]
TrainFiles ==
    {GoodRows(n) : n \in 0..MaxTrainRows}
    \cup {Append(GoodRows(n - 1), [ScenarioRow EXCEPT !.price = Str(<<>>)]) :
             n \in 1..MaxTrainRows}

\* the feature row and the label parser reads from a good row
GoodFeatures == parser(GoodRows(1)).data[1]
GoodLabel == parser(GoodRows(1)).labels[1]

TrainInit == CleanIdle /\ EncIdle /\ TermIdle /\ EvalIdle /\ TrainIdle /\ LoadIdle /\ ScrapeIdle

\* train_short_term() / train_long_term(): train_from_csv(str(path)) is
\* entered, file being the rows at the path
StartTrain(term, file) ==
    /\ job = NoJob
    /\ job' = [NoJob EXCEPT !.pc = "parser", !.entry = "train_from_csv",
                            !.term = term, !.file = file]
    /\ UNCHANGED <<held, served, cleanVars, encVars, termVars, evalVars, loadVars, scrapeVars>>

\* a caller of build_model() fits the pipeline on arrays of its own, for no
\* term: n feature rows and m labels
FitArrays(n, m) ==
    /\ job = NoJob
    /\ job' = [NoJob EXCEPT !.pc = "build_model", !.entry = "fit",
                            !.data = [i \in 1..n |-> GoodFeatures],
                            !.labels = [i \in 1..m |-> GoodLabel]]
    /\ UNCHANGED <<held, served, cleanVars, encVars, termVars, evalVars, loadVars, scrapeVars>>

\* line 105: data, labels = parser(path)
ParseStep ==
    /\ job.pc = "parser"
    /\ LET r == parser(job.file)
       IN  job' = IF r.err # "none"
                  THEN [job EXCEPT !.pc = "raised", !.err = r.err]
                  ELSE [job EXCEPT !.pc = "build_model", !.data = r.data,
                                   !.labels = r.labels]
    /\ UNCHANGED <<held, served, cleanVars, encVars, termVars, evalVars, loadVars, scrapeVars>>

\* a mutant of BuildStep: the pipeline is built in the slot the callers read
BuildStepShared ==
    /\ job.pc = "build_model"
    /\ job' = [job EXCEPT !.pc = "fit", !.model = build_model]
    /\ held' = IF job.term \in TrainedTerms
               THEN [held EXCEPT ![job.term] = build_model]
               ELSE held
    /\ UNCHANGED <<served, cleanVars, encVars, termVars, evalVars, loadVars, scrapeVars>>

\* line 106: model = build_model()
BuildStep ==
    /\ job.pc = "build_model"
    /\ job' = [job EXCEPT !.pc = "fit", !.model = build_model]
    /\ UNCHANGED <<held, served, cleanVars, encVars, termVars, evalVars, loadVars, scrapeVars>>

\* line 107: model.fit(data, labels), one step of the pipeline at a time
FitStep ==
    /\ job.pc = "fit"
    /\ LET k == job.model.fitted + 1
           e == FitError(k, job.data, job.labels)
       IN  job' = IF e # "none"
                  THEN [job EXCEPT !.pc = "raised", !.err = e]
                  ELSE IF k < Len(PipelineSteps)
                  THEN [job EXCEPT !.model.fitted = k]
                  ELSE [job EXCEPT !.pc = "return",
                                   !.model = [kind |-> "Pipeline", fitted |-> k,
                                              data |-> job.data, labels |-> job.labels]]
    /\ UNCHANGED <<held, served, cleanVars, encVars, termVars, evalVars, loadVars, scrapeVars>>

\* line 108: return model
ReturnStep ==
    /\ job.pc = "return"
    /\ job' = [job EXCEPT !.pc = "returned", !.result = job.model]
    /\ UNCHANGED <<held, served, cleanVars, encVars, termVars, evalVars, loadVars, scrapeVars>>

\* the caller keeps the returned model for the term and the call is over
Install ==
    /\ job.pc = "returned"
    /\ job.term \in TrainedTerms
    /\ held' = [held EXCEPT ![job.term] = job.result]
    /\ job' = NoJob
    /\ UNCHANGED <<served, cleanVars, encVars, termVars, evalVars, loadVars, scrapeVars>>

\* the call is given up: its exception propagates, or the caller drops it
Abandon ==
    /\ job.pc # "idle"
    /\ job' = NoJob
    /\ UNCHANGED <<held, served, cleanVars, encVars, termVars, evalVars, loadVars, scrapeVars>>

\* predict(features, model) with the model held for the term, at any moment
PredictCall(term) ==
    /\ served' = [term |-> term, during |-> job.pc, model |-> held[term],
                err |-> predict(GoodFeatures, held[term])]
    /\ UNCHANGED <<held, job, cleanVars, encVars, termVars, evalVars, loadVars, scrapeVars>>

TrainNext ==
    \/ \E term \in TrainedTerms, file \in TrainFiles : StartTrain(term, file)
    \/ \E n \in 0..MaxTrainRows, m \in 0..MaxTrainRows : FitArrays(n, m)
    \/ ParseStep
    \/ BuildStep
    \/ FitStep
    \/ ReturnStep
    \/ Install
    \/ Abandon
    \/ \E term \in TrainedTerms : PredictCall(term)

TrainSpec == TrainInit /\ [][TrainNext]_vars

\* the call has gone past fit
Insufficient == Len(job.data) = 0 \/ Len(job.data) # Len(job.labels)

\* C11: training on an empty dataset (parser gives no feature row and no
\* label) or on features and labels of different lengths fails with an error
\* and returns no model; training succeeds only with at least one row and as
\* many labels as rows.
C11_InsufficientData ==
    /\ job.entry = "train_from_csv" /\ job.file = <<>> /\ job.pc \notin {"idle", "parser"}
          => job.data = <<>> /\ job.labels = <<>>
    /\ job.pc # "idle" /\ Insufficient =>
          /\ ~Complete(job.model)
          /\ job.result = NoModel
          /\ job.pc \notin {"return", "returned"}
          /\ job.pc = "raised" => job.err = "ValueError"
    /\ job.pc \in {"return", "returned"} =>
          /\ Len(job.data) >= 1
          /\ Len(job.data) = Len(job.labels)
          /\ Complete(job.model)
    /\ job.pc = "raised" => job.result = NoModel

\* the file with a header and no row was trained on and the call raised
C11_Witness ==
    /\ job.entry = "train_from_csv"
    /\ job.file = <<>>
    /\ job.pc = "raised"
    /\ job.err = "ValueError"
    /\ job.result = NoModel

\* two feature rows and one label were fitted and the call raised
C11_Mismatch ==
    /\ job.entry = "fit"
    /\ Len(job.data) = 2 /\ Len(job.labels) = 1
    /\ job.pc = "raised"
    /\ job.model.fitted = 2

\* what a caller can obtain is None or a pipeline with every step fitted
ObtainableComplete ==
    /\ job.result = NoModel \/ Complete(job.result)
    /\ \A t \in TrainedTerms : held[t] = NoModel \/ Complete(held[t])
    /\ served.err # "unset" =>
          /\ served.model = NoModel \/ Complete(served.model)
          /\ served.err # "NotFittedError"

\* a step of a running train call changes no held model; a held model changes
\* only to the complete model a finished call returned
TrainChangesNothingShared ==
    /\ job.pc # "returned" => held' = held
    /\ held' # held =>
          /\ Complete(job.result)
          /\ held' = [held EXCEPT ![job.term] = job.result]

\* predict returns with the model it was given, held as before, and the
\* running train call where it was
PredictChangesNothing ==
    served' # served =>
        /\ held' = held
        /\ job' = job
        /\ served'.model = held[served'.term]

\* C13: a (re)train builds and completely fits a new model before any caller
\* can obtain it and changes no shared state while it runs, so every predict
\* interleaved with it observes the old complete model or the new complete
\* one, never a partially fitted one; predict changes neither the model nor
\* shared state; abandoning a retrain leaves the held model unchanged.
C13_BuildThenInstall ==
    /\ []ObtainableComplete
    /\ [][TrainChangesNothingShared /\ PredictChangesNothing]_vars

\* a retrain of a term is in the middle of fit, on other data than the model
\* held for the term, and a predict called meanwhile was served by that model
C13_Witness ==
    /\ job.pc = "fit"
    /\ job.model.fitted = 1
    /\ job.term \in TrainedTerms
    /\ Complete(held[job.term])
    /\ held[job.term].data # job.data
    /\ served.term = job.term
    /\ served.during = "fit"
    /\ served.model = held[job.term]
    /\ served.err = "none"

----------------------------------------------------------------------------
(* Loading (data_loader.py lines 46-71, 140-153).  A csv file is rows of     *)
(* cell texts.  read_csv reads the text of its default na_values as NaN, a   *)
(* text column otherwise as the text itself; a numeric column comes out of   *)
(* read_csv and to_numeric(errors="coerce") as the number the text spells,   *)
(* or NaN.  The first column of the file is the index, kept here as id.      *)

CATEGORICAL_FEATURES == <<"metro", "way", "provider">>

\* some of the texts read_csv takes for a missing value
NaValues == {<<>>, <<"N", "A">>, <<"n", "a", "n">>}

\* pd.read_csv on one cell
ReadCell(text) == IF text \in NaValues THEN NA ELSE text

\* lines 49-55 on one cell: fillna("unknown").astype(str).str.strip(), then
\* "" becomes "unknown"
StripCell(cell) ==
    LET stripped == StrStrip(IF IsNA(cell) THEN S_unknown ELSE cell)
    IN  IF stripped = <<>> THEN S_unknown ELSE stripped

\* pd.to_numeric(errors="coerce") on one cell
CoerceCell(cell) ==
    LET body == IF IsNA(cell) THEN <<>> ELSE StrStrip(cell)
    IN  IF body # <<>> /\ \A i \in 1..Len(body) : IsDigit(body[i])
        THEN Num(Fx(ParseDigits(body)))
        ELSE NA

\* _strip_strings(df, CATEGORICAL_FEATURES) and _coerce_numeric(df,
\* NUMERIC_FEATURES + [TARGET_COLUMN]) on one row
LoadRow(r) ==
    [c \in DOMAIN r |->
        IF \E k \in 1..Len(CATEGORICAL_FEATURES) : CATEGORICAL_FEATURES[k] = c
        THEN StripCell(ReadCell(r[c]))
        ELSE IF c \in NUMERIC_FEATURES \cup {TARGET_COLUMN}
        THEN CoerceCell(ReadCell(r[c]))
        ELSE r[c]]

RECURSIVE DropNaPrice(_)
DropNaPrice(rows) ==
    IF rows = <<>> THEN <<>>
    ELSE IF IsNA(Head(rows)[TARGET_COLUMN]) THEN DropNaPrice(Tail(rows))
    ELSE <<Head(rows)>> \o DropNaPrice(Tail(rows))

\* _load_raw_dataframe(filename), file being the rows at the path
_load_raw_dataframe(file) ==
    DropNaPrice([i \in 1..Len(file) |-> LoadRow(file[i])])

\* load_clean_train_data() / load_clean_test_data()
load_clean_train_data(file) ==
    clean_dataframe(AllColumns \cup {"way"}, _load_raw_dataframe(file))

MaxLoadRows == 2

S_Walk == <<"W", "a", "l", "k">>
BaseRaw ==
    [id |-> Num(0), metro |-> <<"m", "1">>, way |-> S_walk, provider |-> S_owner,
     price |-> <<"5", "0">>, minutes |-> <<"1", "0">>, fee_percent |-> <<"0">>,
     views |-> <<"7">>, storey |-> <<"5">>, storeys |-> <<"1", "0">>,
     rooms |-> <<"2">>, total_area |-> <<"4", "0">>, living_area |-> <<"2", "0">>,
     kitchen_area |-> <<"8">>]

\* the texts a raw cell takes, besides the base row's
RawAlternatives ==
    [metro |-> {<<" ", "M", "2", " ">>, <<>>, <<" ", " ">>, <<"N", "A">>},
     way |-> {<<" ", "c", "a", "r">>, S_Walk, <<>>, <<" ">>},
     provider |-> {<<" ", "A", "g", "e", "n", "c", "y", " ">>, <<>>, <<" ">>,
                   S_zastrojshchik \o <<" ">>, <<"B", "a", "n", "k">>},
     price |-> {<<>>, <<"a", "b", "c">>, <<"7", "0">>}]

RawPool ==
    {BaseRaw} \cup
    UNION {{[BaseRaw EXCEPT ![c] = a] : a \in RawAlternatives[c]} :
             c \in DOMAIN RawAlternatives}

LoadInit ==
    /\ CleanIdle /\ EncIdle /\ TermIdle /\ EvalIdle /\ TrainIdle /\ ScrapeIdle
    /\ rawFile = <<>>
    /\ lpc = "write"
    /\ loaded = NoFrame

\* the next row of the csv file
AddRawRow(r) ==
    /\ lpc = "write"
    /\ Len(rawFile) < MaxLoadRows
    /\ rawFile' = Append(rawFile, [r EXCEPT !.id = Num(Fx(Len(rawFile) + 1))])
    /\ UNCHANGED <<lpc, loaded, cleanVars, encVars, termVars, evalVars, trainVars,
                   scrapeVars>>

\* loaded = load_clean_train_data()
LoadClean ==
    /\ lpc = "write"
    /\ loaded' = load_clean_train_data(rawFile)
    /\ lpc' = "loaded"
    /\ UNCHANGED <<rawFile, cleanVars, encVars, termVars, evalVars, trainVars,
                   scrapeVars>>

LoadNext ==
    \/ \E r \in RawPool : AddRawRow(r)
    \/ LoadClean

LoadSpec == LoadInit /\ [][LoadNext]_vars

\* the raw row a loaded row was read from
RawOf(row) == CHOOSE r \in {rawFile[i] : i \in 1..Len(rawFile)} : r.id = row.id

\* the text trimmed, lower-cased and mapped through the alias table
Canonical(text) ==
    LET normalized == StrLower(StrStrip(text))
    IN  IF \E kv \in PROVIDER_ALIASES : kv[1] = normalized
        THEN (CHOOSE kv \in PROVIDER_ALIASES : kv[1] = normalized)[2]
        ELSE normalized

Blank(text) == text \in NaValues \/ StrStrip(text) = <<>>

\* C12: after loading and cleaning, every categorical field (metro, way,
\* provider) of every row is the raw text trimmed, lower-cased and mapped
\* through the alias table, and is "unknown" whenever the raw cell was
\* missing, empty or whitespace-only.
C12_Categorical ==
    lpc = "loaded" /\ loaded.err = "none" =>
        \A i \in 1..Len(loaded.rows) :
            \A k \in 1..Len(CATEGORICAL_FEATURES) :
                LET c == CATEGORICAL_FEATURES[k]
                    text == RawOf(loaded.rows[i])[c]
                IN  loaded.rows[i][c] = IF Blank(text) THEN S_unknown
                                        ELSE Canonical(text)

\* what the code does: every field is trimmed and "unknown" when blank, and
\* the provider alone is lower-cased and alias-mapped
TrimmedProviderCanonical ==
    lpc = "loaded" /\ loaded.err = "none" =>
        \A i \in 1..Len(loaded.rows) :
            \A k \in 1..Len(CATEGORICAL_FEATURES) :
                LET c == CATEGORICAL_FEATURES[k]
                    text == RawOf(loaded.rows[i])[c]
                IN  loaded.rows[i][c] =
                        IF Blank(text) THEN S_unknown
                        ELSE IF c = "provider" THEN Canonical(text)
                        ELSE StrStrip(text)

----------------------------------------------------------------------------
(* Scraping (cian_parser.py lines 87-112).  The endpoint answers the request *)
(* for page n with the n-th response of site, and with a response without    *)
(* offers past the last one.  A response is its HTTP status and the three    *)
(* lists fetch_page looks for, an absent or empty list being <<>>.  An offer *)
(* is a number.                                                              *)

Response(status, serialized, result, data) ==
    [status |-> status, offersSerialized |-> serialized, resultOffers |-> result,
     dataOffers |-> data]

NoOffers == Response("ok", <<>>, <<>>, <<>>)

\* the response to the request for a page
PageAt(pages, page) == IF page \in 1..Len(pages) THEN pages[page] ELSE NoOffers

\* fetch_page(config, page) on the response: the offers, or the exception of
\* raise_for_status
fetch_page(raw) ==
    IF raw.status # "ok" THEN [err |-> raw.status, offers |-> <<>>]
    ELSE IF raw.offersSerialized # <<>> THEN [err |-> "none", offers |-> raw.offersSerialized]
    ELSE IF raw.resultOffers # <<>> THEN [err |-> "none", offers |-> raw.resultOffers]
    ELSE [err |-> "none", offers |-> raw.dataOffers]

MaxSitePages == 3
MaxPages == 3

Responses ==
    {Response("ok", <<1, 2>>, <<>>, <<>>),
     Response("ok", <<>>, <<3>>, <<4>>),
     Response("ok", <<>>, <<>>, <<5>>),
     NoOffers,
     Response("HTTPError", <<>>, <<>>, <<>>)}

ScrapeInit ==
    /\ CleanIdle /\ EncIdle /\ TermIdle /\ EvalIdle /\ TrainIdle /\ LoadIdle
    /\ site \in UNION {[1..n -> Responses] : n \in 0..MaxSitePages}
    /\ fetch = NoFetch

\* fetch_many(config, max_pages=max_pages) is entered: aggregated = []
Call(max_pages) ==
    /\ fetch.pc = "idle"
    /\ fetch' = [NoFetch EXCEPT !.pc = "for", !.max_pages = max_pages]
    /\ UNCHANGED <<site, cleanVars, encVars, termVars, evalVars, trainVars, loadVars>>

\* line 107: for page in range(1, max_pages + 1)
NextPage ==
    /\ fetch.pc = "for"
    /\ fetch' = IF fetch.page < fetch.max_pages
                THEN [fetch EXCEPT !.pc = "fetch_page", !.page = @ + 1]
                ELSE [fetch EXCEPT !.pc = "return"]
    /\ UNCHANGED <<site, cleanVars, encVars, termVars, evalVars, trainVars, loadVars>>

\* line 108: offers = self.fetch_page(config, page)
FetchPage ==
    /\ fetch.pc = "fetch_page"
    /\ LET r == fetch_page(PageAt(site, fetch.page))
       IN  fetch' = IF r.err # "none"
                    THEN [fetch EXCEPT !.pc = "raised",
                                       !.requested = Append(@, fetch.page)]
                    ELSE [fetch EXCEPT !.pc = "if", !.offers = r.offers,
                                       !.requested = Append(@, fetch.page)]
    /\ UNCHANGED <<site, cleanVars, encVars, termVars, evalVars, trainVars, loadVars>>

\* a mutant of Extend: continue in place of break
ExtendOrContinue ==
    /\ fetch.pc = "if"
    /\ fetch' = [fetch EXCEPT !.pc = "for", !.aggregated = @ \o fetch.offers]
    /\ UNCHANGED <<site, cleanVars, encVars, termVars, evalVars, trainVars, loadVars>>

\* lines 109-111: if not offers: break; aggregated.extend(offers)
Extend ==
    /\ fetch.pc = "if"
    /\ fetch' = IF fetch.offers = <<>>
                THEN [fetch EXCEPT !.pc = "return"]
                ELSE [fetch EXCEPT !.pc = "for", !.aggregated = @ \o fetch.offers]
    /\ UNCHANGED <<site, cleanVars, encVars, termVars, evalVars, trainVars, loadVars>>

\* line 112: return aggregated
Return ==
    /\ fetch.pc = "return"
    /\ fetch' = [fetch EXCEPT !.pc = "returned", !.result = fetch.aggregated]
    /\ UNCHANGED <<site, cleanVars, encVars, termVars, evalVars, trainVars, loadVars>>

ScrapeNext ==
    \/ \E max_pages \in -1..MaxPages : Call(max_pages)
    \/ NextPage
    \/ FetchPage
    \/ Extend
    \/ Return

ScrapeSpec == ScrapeInit /\ [][ScrapeNext]_vars

\* the offers of page n of the site
OffersOf(n) == fetch_page(PageAt(site, n)).offers

\* the offers of pages 1..n, in page order
RECURSIVE OffersUpTo(_)
OffersUpTo(n) == IF n = 0 THEN <<>> ELSE OffersUpTo(n - 1) \o OffersOf(n)

\* C14: fetch_many requests pages 1, 2, ... in increasing order, at most
\* max_pages of them, requests no page after the first one that returns no
\* offers, and returns the concatenation, in page order, of the offers of the
\* pages it requested, having stopped only at max_pages or at a page without
\* offers; with max_pages <= 0 it requests nothing and returns an empty list.
C14_Paging ==
    LET n == Len(fetch.requested)
    IN  /\ \A i \in 1..n : fetch.requested[i] = i
        /\ fetch.max_pages >= 0 => n <= fetch.max_pages
        /\ fetch.max_pages <= 0 => n = 0
        /\ \A i \in 1..(n - 1) : OffersOf(i) # <<>>
        /\ fetch.pc = "returned" =>
              /\ fetch.result = OffersUpTo(n)
              /\ n = fetch.max_pages \/ fetch.max_pages <= 0 \/ OffersOf(n) = <<>>

\* three pages were allowed, the second returned no offers and the third has
\* some: two requests were made and the offers of the first page returned
C14_Witness ==
    /\ fetch.pc = "returned"
    /\ fetch.max_pages = 3
    /\ Len(site) = 3
    /\ OffersOf(1) # <<>> /\ OffersOf(2) = <<>> /\ OffersOf(3) # <<>>
    /\ site[2].status = "ok" /\ site[3].status = "ok"
    /\ fetch.requested = <<1, 2>>
    /\ fetch.result = OffersOf(1)

\* no page was allowed: nothing was requested and the empty list returned
C14_NoPages ==
    /\ fetch.pc = "returned"
    /\ fetch.max_pages = -1
    /\ site # <<>>
    /\ fetch.requested = <<>>
    /\ fetch.result = <<>>

====
